---- MODULE Spec2Model ----
(***************************************************************************)
(* Model of the Kinesis Firehose transformation lambda of src/main.rs:     *)
(* my_handler maps transform_record over the records of a FirehoseEvent    *)
(* with rayon's par_iter; transform_record base64-decodes the payload,     *)
(* parses it as an Apache access-log line (apache_log2json), serialises    *)
(* the parsed entry as JSON and base64-encodes it again.                   *)
(*                                                                         *)
(* Text is modelled as a sequence of Unicode code points (integers), the   *)
(* payloads as sequences of bytes (0..255).  A fallible call returns a     *)
(* record [tag, val, err] with tag "Ok", "Err" or "Panic".                 *)
(***************************************************************************)
EXTENDS Integers, Sequences, FiniteSets, TLC

(***************************************************************************)
(* Results of fallible calls (Rust's Result, plus an unwinding panic).     *)
(***************************************************************************)
Ok(v) == [tag |-> "Ok", val |-> v, err |-> "None"]

Err(e) == [tag |-> "Err", val |-> <<>>, err |-> e]

Panic(msg) == [tag |-> "Panic", val |-> <<>>, err |-> msg]

(***************************************************************************)
(* Characters.  AsciiTable lists the printable ASCII characters from code  *)
(* 32 (space) to 126; Cp turns a tuple of one-character strings into the   *)
(* sequence of their code points, so that string literals of the source    *)
(* can be written down.                                                    *)
(***************************************************************************)
AsciiTable ==
  << " ", "!", "\"", "#", "$", "%", "&", "'", "(", ")", "*", "+", ",", "-", ".", "/",
     "0", "1", "2", "3", "4", "5", "6", "7", "8", "9", ":", ";", "<", "=", ">", "?",
     "@", "A", "B", "C", "D", "E", "F", "G", "H", "I", "J", "K", "L", "M", "N", "O",
     "P", "Q", "R", "S", "T", "U", "V", "W", "X", "Y", "Z", "[", "\\", "]", "^", "_",
     "GRAVE", "a", "b", "c", "d", "e", "f", "g", "h", "i", "j", "k", "l", "m", "n", "o",
     "p", "q", "r", "s", "t", "u", "v", "w", "x", "y", "z", "{", "|", "}", "~" >>

Ord == [c \in {AsciiTable[i] : i \in 1..Len(AsciiTable)} |->
          31 + (CHOOSE i \in 1..Len(AsciiTable) : AsciiTable[i] = c)]

Cp(cs) == [i \in 1..Len(cs) |-> Ord[cs[i]]]

\* The concatenation of the sequences ss[lo], ..., ss[hi].
RECURSIVE FlattenRange(_, _, _)
FlattenRange(ss, lo, hi) ==
  IF lo > hi THEN <<>>
  ELSE IF lo = hi THEN ss[lo]
  ELSE LET mid == (lo + hi) \div 2
       IN  FlattenRange(ss, lo, mid) \o FlattenRange(ss, mid + 1, hi)

Flatten(ss) == FlattenRange(ss, 1, Len(ss))

IsAsciiDigit(c) == c \in 48..57

(***************************************************************************)
(* data_encoding::BASE64: the standard alphabet, '=' padding, canonical    *)
(* (non-zero trailing bits are an error), decoded block by block.          *)
(***************************************************************************)
Base64Symbol(v) ==
  IF v < 26 THEN 65 + v
  ELSE IF v < 52 THEN 97 + (v - 26)
  ELSE IF v < 62 THEN 48 + (v - 52)
  ELSE IF v = 62 THEN 43 ELSE 47

\* The 6-bit value of a symbol, -1 for a byte outside the alphabet.
Base64Value(b) ==
  IF b \in 65..90 THEN b - 65
  ELSE IF b \in 97..122 THEN b - 97 + 26
  ELSE IF b \in 48..57 THEN b - 48 + 52
  ELSE IF b = 43 THEN 62
  ELSE IF b = 47 THEN 63 ELSE -1

Base64Pad == 61

Base64Encode(bytes) ==
  LET n == Len(bytes)
      At(k) == IF k <= n THEN bytes[k] ELSE 0
      Sym(j) ==
        LET g  == (j - 1) \div 4
            p  == (j - 1) % 4
            b0 == At(3 * g + 1)
            b1 == At(3 * g + 2)
            b2 == At(3 * g + 3)
        IN  IF p = 0 THEN Base64Symbol(b0 \div 4)
            ELSE IF p = 1 THEN Base64Symbol((b0 % 4) * 16 + (b1 \div 16))
            ELSE IF p = 2 THEN
              IF 3 * g + 2 > n THEN Base64Pad
              ELSE Base64Symbol((b1 % 16) * 4 + (b2 \div 64))
            ELSE IF 3 * g + 3 > n THEN Base64Pad ELSE Base64Symbol(b2 % 64)
  IN  [j \in 1..(4 * ((n + 2) \div 3)) |-> Sym(j)]

\* One block of four input bytes: Ok(1 to 3 bytes) or Err.
Base64DecodeBlock(c1, c2, c3, c4) ==
  LET v1 == Base64Value(c1)
      v2 == Base64Value(c2)
      v3 == Base64Value(c3)
      v4 == Base64Value(c4)
  IN  IF v1 < 0 \/ v2 < 0 THEN Err("EncodingError")
      ELSE IF c3 = Base64Pad /\ c4 = Base64Pad THEN
        IF v2 % 16 # 0 THEN Err("EncodingError")
        ELSE Ok(<< v1 * 4 + (v2 \div 16) >>)
      ELSE IF v3 < 0 THEN Err("EncodingError")
      ELSE IF c4 = Base64Pad THEN
        IF v3 % 4 # 0 THEN Err("EncodingError")
        ELSE Ok(<< v1 * 4 + (v2 \div 16), (v2 % 16) * 16 + (v3 \div 4) >>)
      ELSE IF v4 < 0 THEN Err("EncodingError")
      ELSE Ok(<< v1 * 4 + (v2 \div 16), (v2 % 16) * 16 + (v3 \div 4),
                 (v3 % 4) * 64 + v4 >>)

\* The input is decoded block by block; the first bad block fails the call.
Base64Decode(input) ==
  LET blocks == [g \in 1..(Len(input) \div 4) |->
                   Base64DecodeBlock(input[4 * g - 3], input[4 * g - 2],
                                     input[4 * g - 1], input[4 * g])]
  IN  IF Len(input) % 4 # 0 THEN Err("EncodingError")
      ELSE IF \E g \in DOMAIN blocks : blocks[g].tag # "Ok" THEN Err("EncodingError")
      ELSE Ok(Flatten([g \in DOMAIN blocks |-> blocks[g].val]))

(***************************************************************************)
(* UTF-8: String::from_utf8 (validation and decoding to code points) and   *)
(* the encoding of a str as bytes.                                         *)
(***************************************************************************)
IsCont(b) == b \in 128..191

\* The number of bytes of the character that lead byte b0 starts, 0 for a
\* byte that starts none.
Utf8Width(b0) ==
  IF b0 < 128 THEN 1
  ELSE IF b0 \in 194..223 THEN 2
  ELSE IF b0 \in 224..239 THEN 3
  ELSE IF b0 \in 240..244 THEN 4
  ELSE 0

\* Whether a well-formed character starts at position k of bytes.
Utf8WellFormedAt(bytes, k) ==
  LET b0   == bytes[k]
      w    == Utf8Width(b0)
      B(j) == IF k + j <= Len(bytes) THEN bytes[k + j] ELSE -1
  IN  /\ w > 0
      /\ \A j \in 1..(w - 1) : IsCont(B(j))
      /\ (b0 = 224 => B(1) >= 160)
      /\ (b0 = 237 => B(1) <= 159)
      /\ (b0 = 240 => B(1) >= 144)
      /\ (b0 = 244 => B(1) <= 143)

\* The code point of the well-formed character at position k.
Utf8CharAt(bytes, k) ==
  LET b0 == bytes[k]
      w  == Utf8Width(b0)
  IN  IF w = 1 THEN b0
      ELSE IF w = 2 THEN (b0 - 192) * 64 + (bytes[k + 1] - 128)
      ELSE IF w = 3 THEN (b0 - 224) * 4096 + (bytes[k + 1] - 128) * 64
                         + (bytes[k + 2] - 128)
      ELSE (b0 - 240) * 262144 + (bytes[k + 1] - 128) * 4096
           + (bytes[k + 2] - 128) * 64 + (bytes[k + 3] - 128)

\* String::from_utf8: every byte is a well-formed lead byte or a continuation
\* byte that the nearest lead byte before it accounts for.
FromUtf8(bytes) ==
  LET n == Len(bytes)
      Covered(k) ==
        \E j \in 1..3 : /\ k - j >= 1
                        /\ ~IsCont(bytes[k - j])
                        /\ \A i \in 1..(j - 1) : IsCont(bytes[k - i])
                        /\ Utf8Width(bytes[k - j]) > j
  IN  IF \A k \in 1..n : IF IsCont(bytes[k]) THEN Covered(k)
                         ELSE Utf8WellFormedAt(bytes, k)
      THEN Ok(Flatten([k \in 1..n |-> IF IsCont(bytes[k]) THEN <<>>
                                      ELSE << Utf8CharAt(bytes, k) >>]))
      ELSE Err("UTF8Error")

Utf8OfChar(c) ==
  IF c < 128 THEN << c >>
  ELSE IF c < 2048 THEN << 192 + (c \div 64), 128 + (c % 64) >>
  ELSE IF c < 65536 THEN
    << 224 + (c \div 4096), 128 + ((c \div 64) % 64), 128 + (c % 64) >>
  ELSE << 240 + (c \div 262144), 128 + ((c \div 4096) % 64),
          128 + ((c \div 64) % 64), 128 + (c % 64) >>

AsBytes(s) == Flatten([i \in 1..Len(s) |-> Utf8OfChar(s[i])])

(***************************************************************************)
(* The character classes of the regex crate, which are Unicode-aware by    *)
(* default.  \d is the decimal digits (general category Nd), \s is         *)
(* White_Space, \w the word characters; the classes are given here for the *)
(* code points below U+0800 (those of one- and two-byte UTF-8), and \s in  *)
(* full.                                                                   *)
(***************************************************************************)
ClassDigit(c) == c \in (48..57) \cup (1632..1641) \cup (1776..1785) \cup (1984..1993)

ClassSpace(c) ==
  c \in (9..13) \cup {32, 133, 160, 5760, 8232, 8233, 8239, 8287, 12288}
        \cup (8192..8202)

ClassWord(c) ==
  \/ ClassDigit(c)
  \/ c \in (65..90) \cup (97..122) \cup {95}
  \/ c \in {170, 181, 186} \cup (192..214) \cup (216..246) \cup (248..255)

\* [\d.]
ClassHost(c) == ClassDigit(c) \/ c = 46

\* \S
ClassNonSpace(c) == c >= 0 /\ ~ClassSpace(c)

\* [\w:/]
ClassDate(c) == ClassWord(c) \/ c \in {58, 47}

\* [\+\-]
ClassSign(c) == c \in {43, 45}

\* .  (any character but a line feed)
ClassAny(c) == c >= 0 /\ c # 10

\* The character at position p of s, -1 past its end.
CharAt(s, p) == IF p \in 1..Len(s) THEN s[p] ELSE -1

\* The least element of a set of positions, or the default for the empty set.
MinOf(S, default) ==
  IF S = {} THEN default ELSE CHOOSE q \in S : \A r \in S : q <= r

\* scan::timezone_offset lets colons and whitespace stand between hours and minutes.
IsColonOrSpace(c) == c = 58 \/ ClassSpace(c)

\* Is c in the character class of that name?
InClass(class, c) ==
  CASE class = "ClassDigit" -> ClassDigit(c)
    [] class = "ClassSpace" -> ClassSpace(c)
    [] class = "ClassHost" -> ClassHost(c)
    [] class = "ClassNonSpace" -> ClassNonSpace(c)
    [] class = "ClassDate" -> ClassDate(c)
    [] class = "IsAsciiDigit" -> IsAsciiDigit(c)
    [] class = "IsColonOrSpace" -> IsColonOrSpace(c)

\* The first position from p on whose character is not in the class: the end
\* (exclusive) of the longest run of class characters starting at p.
RunEnd(s, p, class) ==
  MinOf({q \in p..Len(s) : ~InClass(class, CharAt(s, q))}, Len(s) + 1)

Slice(s, from, to) == SubSeq(s, from, to - 1)

NoMatch == [matched |-> FALSE]

(***************************************************************************)
(* RE: ^([\d.]+) (\S+) (\S+) \[([\w:/]+\s[\+\-]\d{2}:?\d{2}){0,1}\]        *)
(*     "(.+?)" (\d{3}) (\d+)                                               *)
(* matched with the crate's leftmost-first rule.  Every greedy repetition  *)
(* of the pattern is followed by a character outside its class, so the     *)
(* only choices are the optional group 4 (taken when it matches and a ']'  *)
(* follows) and the end of the lazy group 5 (the earliest one after which  *)
(* the rest of the pattern matches).  A group is the pair of its bounds    *)
(* <<from, to>> (to exclusive), or <<0, 0>> when it took no part.          *)
(***************************************************************************)

\* \s[\+\-]\d{2}:?\d{2} at d, the end of the run of [\w:/] that began at p:
\* the position after it, 0 if there is no match.
RETimestampOffset(s, p, d) ==
  IF /\ d > p
     /\ ClassSpace(CharAt(s, d))
     /\ ClassSign(CharAt(s, d + 1))
     /\ ClassDigit(CharAt(s, d + 2)) /\ ClassDigit(CharAt(s, d + 3))
  THEN IF CharAt(s, d + 4) = 58
       THEN (IF ClassDigit(CharAt(s, d + 5)) /\ ClassDigit(CharAt(s, d + 6))
             THEN d + 7 ELSE 0)
       ELSE (IF ClassDigit(CharAt(s, d + 4)) /\ ClassDigit(CharAt(s, d + 5))
             THEN d + 6 ELSE 0)
  ELSE 0

\* [\w:/]+\s[\+\-]\d{2}:?\d{2} at p: the position after it, 0 if no match.
RETimestampEnd(s, p) == RETimestampOffset(s, p, RunEnd(s, p, "ClassDate"))

\* " (\d{3}) (\d+) at the closing quote q: does the rest of the pattern match?
RETailMatches(s, q) ==
  /\ CharAt(s, q) = 34
  /\ CharAt(s, q + 1) = 32
  /\ \A j \in 2..4 : ClassDigit(CharAt(s, q + j))
  /\ CharAt(s, q + 5) = 32
  /\ ClassDigit(CharAt(s, q + 6))

\* (\d{3}) (\d+) after the request, which ends at reqEnd (0: no end found).
RENumbers(s, hostEnd, identEnd, authEnd, ts, reqFrom, reqEnd) ==
  IF reqEnd = 0 THEN NoMatch
  ELSE [matched |-> TRUE,
        groups  |-> << <<1, hostEnd>>,
                       <<hostEnd + 1, identEnd>>,
                       <<identEnd + 1, authEnd>>,
                       ts,
                       <<reqFrom, reqEnd>>,
                       <<reqEnd + 2, reqEnd + 5>>,
                       <<reqEnd + 6, RunEnd(s, reqEnd + 6, "ClassDigit")>> >>]

\* \] "(.+?)" from the closing bracket: at least one character, none a line
\* feed, up to the first closing quote after which the numbers follow.
RERequest(s, hostEnd, identEnd, authEnd, ts, close) ==
  IF CharAt(s, close) = 93 /\ CharAt(s, close + 1) = 32 /\ CharAt(s, close + 2) = 34
  THEN RENumbers(s, hostEnd, identEnd, authEnd, ts, close + 3,
                 MinOf({q \in (close + 4)..Len(s) :
                          /\ RETailMatches(s, q)
                          /\ \A r \in (close + 3)..(q - 1) : ClassAny(s[r])}, 0))
  ELSE NoMatch

\* (...){0,1}\] : the group is taken when it matches and a ']' follows it.
REBracket(s, hostEnd, identEnd, authEnd, tsEnd) ==
  IF tsEnd > 0 /\ CharAt(s, tsEnd) = 93
  THEN RERequest(s, hostEnd, identEnd, authEnd, <<authEnd + 2, tsEnd>>, tsEnd)
  ELSE RERequest(s, hostEnd, identEnd, authEnd, <<0, 0>>, authEnd + 2)

\* (\S+) \[ : the third group, which ends at authEnd.
REAuthUser(s, hostEnd, identEnd, authEnd) ==
  IF authEnd > identEnd + 1 /\ CharAt(s, authEnd) = 32 /\ CharAt(s, authEnd + 1) = 91
  THEN REBracket(s, hostEnd, identEnd, authEnd, RETimestampEnd(s, authEnd + 2))
  ELSE NoMatch

\* (\S+) followed by a space: the second group, which ends at identEnd.
REIdent(s, hostEnd, identEnd) ==
  IF identEnd > hostEnd + 1 /\ CharAt(s, identEnd) = 32
  THEN REAuthUser(s, hostEnd, identEnd, RunEnd(s, identEnd + 1, "ClassNonSpace"))
  ELSE NoMatch

\* ^([\d.]+) followed by a space: the first group, which ends at hostEnd.
REHost(s, hostEnd) ==
  IF hostEnd > 1 /\ CharAt(s, hostEnd) = 32
  THEN REIdent(s, hostEnd, RunEnd(s, hostEnd + 1, "ClassNonSpace"))
  ELSE NoMatch

\* RE.captures(s)
RECaptures(s) == REHost(s, RunEnd(s, 1, "ClassHost"))

\* Captures::get(i): whether group i took part in the match.
CaptureGet(xs, i) == xs.groups[i] # <<0, 0>>

\* &xs[i] (Index<usize> for Captures): the group's text; the crate panics
\* ("no group at index") when the group took no part in the match.
CaptureIndex(s, xs, i) ==
  IF CaptureGet(xs, i)
  THEN Ok(Slice(s, xs.groups[i][1], xs.groups[i][2]))
  ELSE Panic("no group at index")

(***************************************************************************)
(* chrono: DateTime::parse_from_str with the items of "%d/%b/%Y:%H:%M:%S"  *)
(* followed by a space and an offset, DateTime::to_rfc3339 and             *)
(* with_timezone(&Utc).  A scan returns [ok, val, next].                   *)
(***************************************************************************)
ScanFail == [ok |-> FALSE, val |-> 0, next |-> 0]

\* str::trim_left: the first position from p on that holds no whitespace.
TrimLeft(s, p) == RunEnd(s, p, "ClassSpace")

RECURSIVE DigitsValue(_, _, _)
DigitsValue(s, from, to) ==
  IF from >= to THEN 0
  ELSE DigitsValue(s, from, to - 1) * 10 + (s[to - 1] - 48)

\* The digits of s from p up to end (exclusive), as a number.
TakeDigits(s, p, end) ==
  IF end = p THEN ScanFail
  ELSE [ok |-> TRUE, val |-> DigitsValue(s, p, end), next |-> end]

ScanDigits(s, p, max, run) == TakeDigits(s, p, IF run - p > max THEN p + max ELSE run)

ScanNumberAt(s, p, max) == ScanDigits(s, p, max, RunEnd(s, p, "IsAsciiDigit"))

\* scan::number(s, 1, max) after trim_left: one to max ASCII digits.
ScanNumber(s, p0, max) == ScanNumberAt(s, TrimLeft(s, p0), max)

\* A literal character of the format string.
ScanLiteral(s, p, c) ==
  IF CharAt(s, p) = c THEN [ok |-> TRUE, val |-> 0, next |-> p + 1] ELSE ScanFail

ToLower(c) == IF c \in 65..90 THEN c + 32 ELSE c

MonthNames ==
  << Cp(<<"j","a","n">>), Cp(<<"f","e","b">>), Cp(<<"m","a","r">>), Cp(<<"a","p","r">>),
     Cp(<<"m","a","y">>), Cp(<<"j","u","n">>), Cp(<<"j","u","l">>), Cp(<<"a","u","g">>),
     Cp(<<"s","e","p">>), Cp(<<"o","c","t">>), Cp(<<"n","o","v">>), Cp(<<"d","e","c">>) >>

\* scan::short_month0 (%b): three letters, compared without case.
ScanShortMonth(s, p) ==
  LET w  == << ToLower(CharAt(s, p)), ToLower(CharAt(s, p + 1)), ToLower(CharAt(s, p + 2)) >>
      ms == {m \in 1..12 : MonthNames[m] = w}
  IN  IF ms = {} THEN ScanFail
      ELSE [ok |-> TRUE, val |-> CHOOSE m \in ms : TRUE, next |-> p + 3]

\* The offset whose sign is at p and whose minutes begin at m.
TimezoneOffsetAt(s, p, m) ==
  IF /\ ClassSign(CharAt(s, p))
     /\ IsAsciiDigit(CharAt(s, p + 1)) /\ IsAsciiDigit(CharAt(s, p + 2))
     /\ CharAt(s, m) \in 48..53 /\ IsAsciiDigit(CharAt(s, m + 1))
  THEN [ok |-> TRUE,
        val |-> (IF CharAt(s, p) = 45 THEN -1 ELSE 1)
                * (((CharAt(s, p + 1) - 48) * 10 + (CharAt(s, p + 2) - 48)) * 60
                   + (CharAt(s, m) - 48) * 10 + (CharAt(s, m + 1) - 48)),
        next |-> m + 2]
  ELSE ScanFail

\* A fault of TimezoneOffsetFrom: the colon of the offset is required.
TimezoneOffsetColonOnly(s, p) ==
  IF CharAt(s, p + 3) = 58 THEN TimezoneOffsetAt(s, p, p + 4) ELSE ScanFail

TimezoneOffsetFrom(s, p) == TimezoneOffsetAt(s, p, RunEnd(s, p + 3, "IsColonOrSpace"))

\* scan::timezone_offset(s.trim_left(), colon_or_space): a sign, two digits of
\* hours, any colons or whitespace, two digits of minutes (the first at most
\* 5).  chrono scans %z and %:z with this one routine.  val is the offset in
\* minutes east of UTC.
ScanTimezoneOffset(s, p0) == TimezoneOffsetFrom(s, TrimLeft(s, p0))

IsLeapYear(y) == (y % 4 = 0 /\ y % 100 # 0) \/ y % 400 = 0

DaysInMonth(y, m) ==
  IF m = 2 THEN (IF IsLeapYear(y) THEN 29 ELSE 28)
  ELSE IF m \in {4, 6, 9, 11} THEN 30 ELSE 31

\* Parsed::to_datetime: the fields must name a date, a time of day (a second
\* of 60 is a leap second) and an offset of less than a day.
ValidDateTime(year, month, day, hour, minute, second, offset) ==
  /\ day >= 1 /\ day <= DaysInMonth(year, month)
  /\ hour <= 23 /\ minute <= 59 /\ second <= 60
  /\ offset > -1440 /\ offset < 1440

\* The items of the format strings of apache_log2json, as StrftimeItems
\* yields them.
FormatColon == << "%d", "/", "%b", "/", "%Y", ":", "%H", ":", "%M", ":", "%S", " ", "%:z" >>

FormatNoColon == << "%d", "/", "%b", "/", "%Y", ":", "%H", ":", "%M", ":", "%S", " ", "%z" >>

\* One item of a format at position p of s.
ScanItem(s, p, item) ==
  CASE item \in {"%d", "%H", "%M", "%S"} -> ScanNumber(s, p, 2)
    [] item = "%Y" -> ScanNumber(s, p, 4)
    [] item = "%b" -> ScanShortMonth(s, p)
    [] item = " " -> [ok |-> TRUE, val |-> 0, next |-> TrimLeft(s, p)]
    [] item \in {"%z", "%:z"} -> ScanTimezoneOffset(s, p)
    [] OTHER -> ScanLiteral(s, p, Ord[item])

\* The field of Parsed that an item sets.
ItemField ==
  [item \in {"%d", "%b", "%Y", "%H", "%M", "%S", "%z", "%:z"} |->
     CASE item = "%d" -> "day" [] item = "%b" -> "month" [] item = "%Y" -> "year"
       [] item = "%H" -> "hour" [] item = "%M" -> "minute" [] item = "%S" -> "second"
       [] OTHER -> "offset"]

SetField(parsed, item, val) ==
  IF item \in DOMAIN ItemField THEN [parsed EXCEPT ![ItemField[item]] = val] ELSE parsed

\* Parsed::to_datetime
ToDateTime(parsed) ==
  IF ValidDateTime(parsed.year, parsed.month, parsed.day, parsed.hour, parsed.minute,
                   parsed.second, parsed.offset)
  THEN Ok(parsed) ELSE Err("DateTimeParseError")

RECURSIVE ParseItems(_, _, _, _, _)
ParseItem(s, items, k, parsed, r) ==
  IF r.ok THEN ParseItems(s, r.next, items, k + 1, SetField(parsed, items[k], r.val))
  ELSE Err("DateTimeParseError")

\* format::parse: the items in turn, then nothing may be left of s.
ParseItems(s, p, items, k, parsed) ==
  IF k <= Len(items) THEN ParseItem(s, items, k, parsed, ScanItem(s, p, items[k]))
  ELSE IF p = Len(s) + 1 THEN ToDateTime(parsed)
  ELSE Err("DateTimeParseError")

\* DateTime::parse_from_str(s, fmt)
ParseFromStr(s, fmt) ==
  ParseItems(s, 1, fmt, 1,
             [year |-> 0, month |-> 0, day |-> 0, hour |-> 0, minute |-> 0,
              second |-> 0, offset |-> 0])

\* n written with at least w decimal digits (n >= 0).
RECURSIVE PadDigits(_, _)
PadDigits(n, w) ==
  IF n < 10 /\ w <= 1 THEN << 48 + n >>
  ELSE Append(PadDigits(n \div 10, w - 1), 48 + (n % 10))

\* The date moved one day back (carry = -1) or forward (carry = 1).
ShiftDay(year, month, day, carry) ==
  IF carry = -1 /\ day = 1
  THEN IF month = 1 THEN << year - 1, 12, 31 >>
       ELSE << year, month - 1, DaysInMonth(year, month - 1) >>
  ELSE IF carry = 1 /\ day = DaysInMonth(year, month)
  THEN IF month = 12 THEN << year + 1, 1, 1 >> ELSE << year, month + 1, 1 >>
  ELSE << year, month, day + carry >>

ShiftTo(dt, date, tod) ==
  [dt EXCEPT !.year = date[1], !.month = date[2], !.day = date[3],
             !.hour = tod \div 60, !.minute = tod % 60]

ShiftCarry(dt, total, carry) ==
  ShiftTo(dt, ShiftDay(dt.year, dt.month, dt.day, carry), total - carry * 1440)

\* The local date and time moved by delta minutes (less than a day either
\* way), with the carry into the day, the month and the year.
ShiftMinutes(dt, delta) ==
  ShiftCarry(dt, dt.hour * 60 + dt.minute + delta,
             IF dt.hour * 60 + dt.minute + delta < 0 THEN -1
             ELSE IF dt.hour * 60 + dt.minute + delta >= 1440 THEN 1 ELSE 0)

\* A fault of WithTimezoneUtc: the offset is added, not taken away.
WithTimezoneUtcAdded(dt) == [ShiftMinutes(dt, dt.offset) EXCEPT !.offset = 0]

\* time.with_timezone(&Utc): the same instant, at offset zero.
WithTimezoneUtc(dt) == [ShiftMinutes(dt, 0 - dt.offset) EXCEPT !.offset = 0]

\* The year of an RFC 3339 date: four digits, or a sign and at least four
\* digits outside 0..9999.
YearDigits(y) ==
  IF y \in 0..9999 THEN PadDigits(y, 4)
  ELSE IF y < 0 THEN << 45 >> \o PadDigits(0 - y, 4)
  ELSE << 43 >> \o PadDigits(y, 4)

\* DateTime::to_rfc3339: YYYY-MM-DDTHH:MM:SS+HH:MM.
ToRfc3339(dt) ==
  LET a == IF dt.offset < 0 THEN 0 - dt.offset ELSE dt.offset
  IN  YearDigits(dt.year) \o << 45 >> \o PadDigits(dt.month, 2) \o << 45 >>
      \o PadDigits(dt.day, 2) \o << 84 >> \o PadDigits(dt.hour, 2) \o << 58 >>
      \o PadDigits(dt.minute, 2) \o << 58 >> \o PadDigits(dt.second, 2)
      \o << IF dt.offset < 0 THEN 45 ELSE 43 >>
      \o PadDigits(a \div 60, 2) \o << 58 >> \o PadDigits(a % 60, 2)

(***************************************************************************)
(* u32.  A value is kept as two 16-bit limbs [hi, lo] (hi * 65536 + lo),   *)
(* so that the 32-bit width of the type is exact.                          *)
(***************************************************************************)
Limb == 65536

\* A fault of U32Push: the arithmetic wraps at 32 bits.
U32PushWrapping(acc, d) ==
  Ok([hi |-> (acc.hi * 10 + ((acc.lo * 10 + d) \div Limb)) % Limb,
      lo |-> (acc.lo * 10 + d) % Limb])

\* acc * 10 + d, checked: Err on overflow of the 32 bits (checked_mul,
\* checked_add).
U32Push(acc, d) ==
  LET lo == acc.lo * 10 + d
      hi == acc.hi * 10 + (lo \div Limb)
  IN  IF hi >= Limb THEN Err("IntError")
      ELSE Ok([hi |-> hi, lo |-> lo % Limb])

RECURSIVE ParseU32From(_, _, _)
ParseU32From(s, k, acc) ==
  IF k > Len(s) THEN Ok(acc)
  ELSE IF ~IsAsciiDigit(s[k]) THEN Err("IntError")
  ELSE LET r == U32Push(acc, s[k] - 48)
       IN  IF r.tag # "Ok" THEN r ELSE ParseU32From(s, k + 1, r.val)

\* str::parse::<u32>: an optional '+', then ASCII digits only, at least one.
ParseU32(s) ==
  LET from == IF CharAt(s, 1) = 43 THEN 2 ELSE 1
  IN  IF from > Len(s) THEN Err("IntError")
      ELSE ParseU32From(s, from, [hi |-> 0, lo |-> 0])

\* The decimal digits of a u32 (itoa), without leading zeros.
RECURSIVE U32Digits(_)
U32Digits(v) ==
  LET top  == (v.hi % 10) * Limb + v.lo
      rest == [hi |-> v.hi \div 10, lo |-> top \div 10]
  IN  IF rest.hi = 0 /\ rest.lo = 0 THEN << 48 + (top % 10) >>
      ELSE Append(U32Digits(rest), 48 + (top % 10))

(***************************************************************************)
(* serde_json: to_value of an AccessLog is an object of its eight fields,  *)
(* under their serde names; to_vec writes it compactly, the keys in the    *)
(* order of the map (sorted), strings escaped.                             *)
(***************************************************************************)
HexDigit(n) == IF n < 10 THEN 48 + n ELSE 97 + (n - 10)

\* A fault of JsonEscapeChar: no character is escaped.
JsonEscapeCharRaw(c) == Utf8OfChar(c)

\* format_escaped_str: one character of a JSON string.
JsonEscapeChar(c) ==
  IF c = 34 THEN << 92, 34 >>
  ELSE IF c = 92 THEN << 92, 92 >>
  ELSE IF c = 8 THEN << 92, 98 >>
  ELSE IF c = 12 THEN << 92, 102 >>
  ELSE IF c = 10 THEN << 92, 110 >>
  ELSE IF c = 13 THEN << 92, 114 >>
  ELSE IF c = 9 THEN << 92, 116 >>
  ELSE IF c < 32 THEN << 92, 117, 48, 48, HexDigit(c \div 16), HexDigit(c % 16) >>
  ELSE Utf8OfChar(c)

JsonString(s) ==
  << 34 >> \o Flatten([i \in 1..Len(s) |-> JsonEscapeChar(s[i])]) \o << 34 >>

JsonMember(key, valueBytes) == JsonString(Cp(key)) \o << 58 >> \o valueBytes

\* struct AccessLog, with the values of its fields.
AccessLog(host, ident, authuser, timestamp, timestamp_utc, request, response, bytes) ==
  [host |-> host, ident |-> ident, authuser |-> authuser,
   timestamp |-> timestamp, timestamp_utc |-> timestamp_utc,
   request |-> request, response |-> response, bytes |-> bytes]

\* serde_json::to_vec(&r) of the object made by serde_json::to_value(log).
JsonToVec(log) ==
  << 123 >>
  \o JsonMember(<<"@","t","i","m","e","s","t","a","m","p">>, JsonString(log.timestamp))
  \o << 44 >>
  \o JsonMember(<<"@","t","i","m","e","s","t","a","m","p","_","u","t","c">>,
                JsonString(log.timestamp_utc))
  \o << 44 >>
  \o JsonMember(<<"a","u","t","h","u","s","e","r">>, JsonString(log.authuser))
  \o << 44 >>
  \o JsonMember(<<"b","y","t","e","s">>, U32Digits(log.bytes))
  \o << 44 >>
  \o JsonMember(<<"h","o","s","t">>, JsonString(log.host))
  \o << 44 >>
  \o JsonMember(<<"i","d","e","n","t">>, JsonString(log.ident))
  \o << 44 >>
  \o JsonMember(<<"r","e","q","u","e","s","t">>, JsonString(log.request))
  \o << 44 >>
  \o JsonMember(<<"r","e","s","p","o","n","s","e">>, U32Digits(log.response))
  \o << 125 >>

(***************************************************************************)
(* The functions of main.rs.                                               *)
(***************************************************************************)
OK == "Ok"

NG == "ProcessingFailed"

\* The text of a group that took part in the match.
GroupText(s, xs, i) == CaptureIndex(s, xs, i).val

\* The AccessLog of a matched line whose timestamp and numbers parsed.
Log2JsonValue(s, xs, time, response, bytes) ==
  IF response.tag # "Ok" THEN response
  ELSE IF bytes.tag # "Ok" THEN bytes
  ELSE Ok(AccessLog(GroupText(s, xs, 1), GroupText(s, xs, 2), GroupText(s, xs, 3),
                    ToRfc3339(time.val), ToRfc3339(WithTimezoneUtc(time.val)),
                    GroupText(s, xs, 5), response.val, bytes.val))

Log2JsonNumbers(s, xs, time) ==
  IF time.tag # "Ok" THEN time
  ELSE Log2JsonValue(s, xs, time, ParseU32(GroupText(s, xs, 6)),
                     ParseU32(GroupText(s, xs, 7)))

\* parse_from_str(.., "%:z").or_else(|_| parse_from_str(.., "%z"))
OrElseNoColon(text, first) ==
  IF first.tag = "Ok" THEN first ELSE ParseFromStr(text, FormatNoColon)

ParseTime(text) == OrElseNoColon(text, ParseFromStr(text, FormatColon))

\* From &xs[4] on: the index panics when group 4 took no part in the match.
Log2JsonTime(s, xs, ts) ==
  IF ts.tag = "Panic" THEN ts ELSE Log2JsonNumbers(s, xs, ParseTime(ts.val))

Log2JsonCaptures(s, xs) ==
  IF ~xs.matched THEN Err("RegexParseError")
  ELSE Log2JsonTime(s, xs, CaptureIndex(s, xs, 4))

apache_log2json(s) == Log2JsonCaptures(s, RECaptures(s))

\* serde_json::to_vec(&r) of the value apache_log2json returned.
TransformJson(r) == IF r.tag # "Ok" THEN r ELSE Ok(JsonToVec(r.val))

TransformText(s) == IF s.tag # "Ok" THEN s ELSE TransformJson(apache_log2json(s.val))

transform_data(data) == TransformText(FromUtf8(data))

TransformationRecord(record_id, data, result) ==
  [record_id |-> record_id, result |-> result, data |-> data]

\* The record made of the outcome x of the decoding and transform_data.
RecordOf(record, x) ==
  IF x.tag = "Panic" THEN x
  ELSE IF x.tag = "Ok"
  THEN Ok(TransformationRecord(record.record_id, Base64Encode(x.val), OK))
  ELSE Ok(TransformationRecord(record.record_id, record.data, NG))

\* .and_then(|x| transform_data(x) ..)
AndThenTransform(decoded) ==
  IF decoded.tag = "Ok" THEN transform_data(decoded.val) ELSE decoded

\* transform_record: an error of any stage gives the record back as it came,
\* marked NG; a panic below unwinds through it.
transform_record(record) == RecordOf(record, AndThenTransform(Base64Decode(record.data)))

(***************************************************************************)
(* Inputs.  A payload is assembled from the fields of an access-log line;  *)
(* the fields are kept beside the record (variable made) so that the       *)
(* properties can name them.  A timestamp is drawn as numbers and written  *)
(* in the log's notation with either form of the offset.                   *)
(***************************************************************************)
MonthAbbr ==
  << Cp(<<"J","a","n">>), Cp(<<"F","e","b">>), Cp(<<"M","a","r">>), Cp(<<"A","p","r">>),
     Cp(<<"M","a","y">>), Cp(<<"J","u","n">>), Cp(<<"J","u","l">>), Cp(<<"A","u","g">>),
     Cp(<<"S","e","p">>), Cp(<<"O","c","t">>), Cp(<<"N","o","v">>), Cp(<<"D","e","c">>) >>

Stamp(day, month, year, hour, minute, second, offset) ==
  [day |-> day, month |-> month, year |-> year, hour |-> hour, minute |-> minute,
   second |-> second, offset |-> offset]

\* dd/Mon/yyyy:hh:mm:ss +hh:mm, or +hhmm without the colon.  negzero writes a
\* zero offset as -00:00.
StampText(st, colon, negzero) ==
  LET a == IF st.offset < 0 THEN 0 - st.offset ELSE st.offset
  IN  PadDigits(st.day, 2) \o << 47 >> \o MonthAbbr[st.month] \o << 47 >>
      \o PadDigits(st.year, 4) \o << 58 >> \o PadDigits(st.hour, 2) \o << 58 >>
      \o PadDigits(st.minute, 2) \o << 58 >> \o PadDigits(st.second, 2) \o << 32 >>
      \o << IF st.offset < 0 \/ negzero THEN 45 ELSE 43 >>
      \o PadDigits(a \div 60, 2) \o (IF colon THEN << 58 >> ELSE <<>>)
      \o PadDigits(a % 60, 2)

NoStamp == Stamp(0, 0, 0, 0, 0, 0, 0)

\* The timestamp of a line: tsKind is "valid" (a real date, time and offset),
\* "invalid" (the notation of the grammar, but no date, time or offset),
\* "absent" (nothing between the brackets).
ValidTs(st, negzero) ==
  [tsKind |-> "valid", stamp |-> st, negzero |-> negzero, text |-> <<>>]

InvalidStampTs(st) ==
  [tsKind |-> "invalid", stamp |-> st, negzero |-> FALSE, text |-> <<>>]

InvalidTextTs(text) ==
  [tsKind |-> "invalid", stamp |-> NoStamp, negzero |-> FALSE, text |-> text]

AbsentTs == [tsKind |-> "absent", stamp |-> NoStamp, negzero |-> FALSE, text |-> <<>>]

TsText(ts, colon) ==
  IF ts.tsKind = "absent" THEN <<>>
  ELSE IF ts.text # <<>> THEN ts.text
  ELSE StampText(ts.stamp, colon, ts.negzero)

\* A number token: its text, and whether it is a run of ASCII digits within
\* the range of u32.
Num(text, fits) == [text |-> text, fits |-> fits]

LogLine(host, ident, authuser, ts, request, response, bytes, tail) ==
  [kind |-> "line", host |-> host, ident |-> ident, authuser |-> authuser, ts |-> ts,
   request |-> request, response |-> response, bytes |-> bytes, tail |-> tail,
   payload |-> <<>>]

\* A payload that is no line of the grammar: kind is "text" (UTF-8 text the
\* grammar rejects), "bytes" (base64 of bytes that are not UTF-8) or "raw"
\* (not base64); payload is the text, the bytes or the data itself.
Malformed(kind, payload) ==
  [kind |-> kind, host |-> <<>>, ident |-> <<>>, authuser |-> <<>>, ts |-> AbsentTs,
   request |-> <<>>, response |-> Num(<<>>, FALSE), bytes |-> Num(<<>>, FALSE),
   tail |-> <<>>, payload |-> payload]

LineText(f, colon) ==
  f.host \o << 32 >> \o f.ident \o << 32 >> \o f.authuser \o << 32, 91 >>
  \o TsText(f.ts, colon) \o << 93, 32, 34 >> \o f.request \o << 34, 32 >>
  \o f.response.text \o << 32 >> \o f.bytes.text \o f.tail

\* FirehoseRecord.data of an input.
DataOf(f, colon) ==
  IF f.kind = "line" THEN Base64Encode(AsBytes(LineText(f, colon)))
  ELSE IF f.kind = "text" THEN Base64Encode(AsBytes(f.payload))
  ELSE IF f.kind = "bytes" THEN Base64Encode(f.payload)
  ELSE f.payload

\* struct FirehoseRecord (approximate_arrival_timestamp is never read).
FirehoseRecord(record_id, data) == [record_id |-> record_id, data |-> data]

(***************************************************************************)
(* The values the inputs are drawn from.                                   *)
(***************************************************************************)
Hosts == { Cp(<<"1", ".", "2">>), << 1635, 46, 52 >> }

Idents == { Cp(<<"-">>), << 98, 1, 111 >> }

AuthUsers == { Cp(<<"-">>), Cp(<<"a", "l">>) }

Requests ==
  { Cp(<<"G", "E", "T", " ", "/">>),
    Cp(<<"G", " ", "\"", "x", "\"", " ", "/">>),
    Cp(<<"a", "\\", "b">>) \o << 9, 233 >> }

Tails == { <<>>, Cp(<<" ", "\"", "-", "\"", " ", "\"", "M", "o", "z", "\"", " ">>) }

Responses ==
  { Num(Cp(<<"2", "0", "0">>), TRUE), Num(Cp(<<"4", "0", "4">>), TRUE),
    Num(Cp(<<"0", "0", "7">>), TRUE), Num(<< 1634, 1632, 1632 >>, FALSE) }

ByteCounts ==
  { Num(Cp(<<"5">>), TRUE), Num(Cp(<<"9", "9", "4", "7">>), TRUE),
    Num(Cp(<<"0", "0", "0", "5">>), TRUE),
    Num(Cp(<<"4", "2", "9", "4", "9", "6", "7", "2", "9", "5">>), TRUE),
    Num(Cp(<<"0", "4", "2", "9", "4", "9", "6", "7", "2", "9", "5">>), TRUE),
    Num(Cp(<<"4", "2", "9", "4", "9", "6", "7", "2", "9", "6">>), FALSE),
    Num(Cp(<<"9", "9", "9", "9", "9", "9", "9", "9", "9", "9", "9">>), FALSE),
    Num(<< 1637 >>, FALSE) }

\* <<day, month, year>>
Dates ==
  { <<14, 12, 2017>>, <<1, 1, 2017>>, <<31, 12, 2017>>, <<28, 2, 2017>>, <<1, 3, 2017>>,
    <<29, 2, 2016>>, <<1, 3, 2016>>, <<1, 3, 1900>>, <<1, 3, 2000>>, <<1, 1, 0>>,
    <<31, 12, 9999>> }

\* <<hour, minute, second>>; a second of 60 is a leap second.
Times == { <<22, 16, 45>>, <<0, 0, 0>>, <<23, 59, 59>>, <<8, 30, 0>>, <<23, 59, 60>> }

\* minutes east of UTC
Offsets == { 540, -540, 0, 330, 60, 1439, -1439 }

ValidStamps ==
  { ValidTs(Stamp(d[1], d[2], d[3], h[1], h[2], h[3], o), FALSE) :
      d \in Dates, h \in Times, o \in Offsets }
  \cup { ValidTs(Stamp(d[1], d[2], d[3], 22, 16, 45, 0), TRUE) : d \in Dates }

InvalidStamps ==
  { InvalidStampTs(Stamp(30, 2, 2017, 22, 16, 45, 540)),
    InvalidStampTs(Stamp(29, 2, 2017, 22, 16, 45, 540)),
    InvalidStampTs(Stamp(29, 2, 1900, 22, 16, 45, 540)),
    InvalidStampTs(Stamp(31, 4, 2017, 22, 16, 45, 540)),
    InvalidStampTs(Stamp(0, 1, 2017, 22, 16, 45, 540)),
    InvalidStampTs(Stamp(32, 1, 2017, 22, 16, 45, 540)),
    InvalidStampTs(Stamp(14, 12, 2017, 24, 0, 0, 540)),
    InvalidStampTs(Stamp(14, 12, 2017, 22, 60, 0, 540)),
    InvalidStampTs(Stamp(14, 12, 2017, 22, 16, 61, 540)),
    InvalidStampTs(Stamp(14, 12, 2017, 22, 16, 45, 1440)),
    InvalidStampTs(Stamp(14, 12, 2017, 22, 16, 45, -1440)),
    InvalidTextTs(Cp(<<"1", "4", "/", "F", "o", "o", "/", "2", "0", "1", "7", ":", "2", "2",
                       ":", "1", "6", ":", "4", "5", " ", "+", "0", "9", "0", "0">>)),
    InvalidTextTs(Cp(<<"1", "4", "/", "D", "e", "c", "/", "2", "0", "1", "7", ":", "2", "2",
                       ":", "1", "6", ":", "4", "5", " ", "+", "0", "9", ":", "6", "0">>)),
    InvalidTextTs(Cp(<<"1", "4", "/", "D", "e", "c", "/", "1", "2", "0", "1", "7", ":", "2",
                       "2", ":", "1", "6", ":", "4", "5", " ", "+", "0", "9", "0", "0">>)),
    InvalidTextTs(Cp(<<"1", "4", "/", "D", "e", "c", "/", "2", "0", "1", "7", ":", "2", "2",
                       ":", "1", "6", ":", "4", "5", " ", "+">>) \o << 1632, 1641, 48, 48 >>),
    InvalidTextTs(Cp(<<"x", " ", "-", "0", "0", "0", "0">>)) }

DefaultHost == Cp(<<"1", ".", "2">>)

DefaultToken == Cp(<<"-">>)

DefaultRequest == Cp(<<"G", "E", "T", " ", "/">>)

DefaultResponse == Num(Cp(<<"2", "0", "0">>), TRUE)

DefaultByteCount == Num(Cp(<<"9", "9", "4", "7">>), TRUE)

\* The timestamp of the test of main.rs: 14/Dec/2017:22:16:45 +09:00.
DefaultTs == ValidTs(Stamp(14, 12, 2017, 22, 16, 45, 540), FALSE)

\* The lines of the second specification: every timestamp with the default
\* fields, every pair of numbers, every choice of the text fields, and the
\* timestamps that fail with a byte count that fits and one that does not.
LineFixtures ==
  { LogLine(DefaultHost, DefaultToken, DefaultToken, ts, DefaultRequest,
            DefaultResponse, DefaultByteCount, <<>>) : ts \in ValidStamps }
  \cup { LogLine(DefaultHost, DefaultToken, DefaultToken, DefaultTs, DefaultRequest,
                 r, b, <<>>) : r \in Responses, b \in ByteCounts }
  \cup { LogLine(h, i, a, DefaultTs, q, DefaultResponse, DefaultByteCount, tl) :
           h \in Hosts, i \in Idents, a \in AuthUsers, q \in Requests, tl \in Tails }
  \cup { LogLine(DefaultHost, DefaultToken, DefaultToken, ts, DefaultRequest,
                 DefaultResponse, b, <<>>) :
           ts \in InvalidStamps \cup {AbsentTs},
           b \in { DefaultByteCount,
                   Num(Cp(<<"4", "2", "9", "4", "9", "6", "7", "2", "9", "6">>), FALSE) } }

\* The inputs of the first specification, <<fields, colon>>: two lines that
\* parse, one with a failing timestamp, one with none, one with a byte count
\* beyond u32, a text that is no line, bytes that are no text, data that is
\* not base64.
Corpus ==
  { << LogLine(DefaultHost, DefaultToken, DefaultToken, DefaultTs, DefaultRequest,
               DefaultResponse, DefaultByteCount, <<>>), TRUE >>,
    << LogLine(DefaultHost, DefaultToken, Cp(<<"a", "l">>),
               ValidTs(Stamp(1, 1, 2017, 0, 16, 45, 540), FALSE),
               Cp(<<"G", " ", "\"", "x", "\"", " ", "/">>),
               Num(Cp(<<"4", "0", "4">>), TRUE), Num(Cp(<<"5">>), TRUE),
               Cp(<<" ", "\"", "-", "\"", " ", "\"", "M", "o", "z", "\"", " ">>)), FALSE >>,
    << LogLine(DefaultHost, DefaultToken, DefaultToken,
               InvalidStampTs(Stamp(30, 2, 2017, 22, 16, 45, 540)), DefaultRequest,
               DefaultResponse, DefaultByteCount, <<>>), TRUE >>,
    << LogLine(DefaultHost, DefaultToken, DefaultToken, AbsentTs, DefaultRequest,
               DefaultResponse, Num(Cp(<<"5">>), TRUE), <<>>), TRUE >>,
    << LogLine(DefaultHost, DefaultToken, DefaultToken, DefaultTs, DefaultRequest,
               DefaultResponse,
               Num(Cp(<<"4", "2", "9", "4", "9", "6", "7", "2", "9", "6">>), FALSE),
               <<>>), TRUE >>,
    << Malformed("text", Cp(<<"h", "e", "l", "l", "o", " ", "-", " ", "-">>)), TRUE >>,
    << Malformed("bytes", << 49, 46, 50, 32, 255, 254 >>), TRUE >>,
    << Malformed("raw", Cp(<<"M", "S", "4", "y", "I", "C", "0">>)), TRUE >> }

RecordIds == { "49545115243490985018280067714973144582180062593244200961", "id-2" }

MaxBatch == 2

(***************************************************************************)
(* my_handler.  The records of the event are mapped by transform_record    *)
(* on rayon's workers, one record at a time in any order; collect gathers  *)
(* the results in the order of the input.  A panic of a worker is resumed  *)
(* in the caller, which then returns nothing.                              *)
(***************************************************************************)
VARIABLES
  records,   \* event.records
  made,      \* for each record, the fields its data was assembled from
  slots,     \* the result of each record's transform_record, once it ran
  order,     \* the indices of the records in the order their workers finished
  pc,        \* "par_iter", "returned" (Ok(..)) or "unwound" (panicked)
  ret        \* TransformationEvent.records of the returned value

vars == << records, made, slots, order, pc, ret >>

Pending == [state |-> "pending", rec |-> TransformationRecord("", <<>>, "")]

Start ==
  /\ slots = [i \in 1..Len(records) |-> Pending]
  /\ order = <<>>
  /\ pc = "par_iter"
  /\ ret = <<>>

\* Batches of up to MaxBatch records of the corpus.
Init ==
  /\ \E n \in 0..MaxBatch :
       \E ids \in [1..n -> RecordIds], fs \in [1..n -> Corpus] :
         /\ made = [i \in 1..n |-> [f |-> fs[i][1], colon |-> fs[i][2]]]
         /\ records = [i \in 1..n |->
                         FirehoseRecord(ids[i], DataOf(fs[i][1], fs[i][2]))]
  /\ Start

\* The same line twice, its offset written with and without the colon.
InitLine ==
  /\ \E f \in LineFixtures :
       /\ made = << [f |-> f, colon |-> TRUE], [f |-> f, colon |-> FALSE] >>
       /\ records = << FirehoseRecord("id-1", DataOf(f, TRUE)),
                       FirehoseRecord("id-2", DataOf(f, FALSE)) >>
  /\ Start

\* The slot of a record whose transform_record ended with r.
SlotOf(r) ==
  IF r.tag = "Ok" THEN [state |-> "done", rec |-> r.val]
  ELSE [state |-> "panicked", rec |-> Pending.rec]

\* .map(|x| transform_record(x)) on one record: a worker runs it to its
\* return or to its panic.
MapRecord(i) ==
  /\ pc = "par_iter"
  /\ slots[i].state = "pending"
  /\ slots' = [slots EXCEPT ![i] = SlotOf(transform_record(records[i]))]
  /\ order' = Append(order, i)
  /\ UNCHANGED << records, made, pc, ret >>

\* A fault of CollectRecords: the results in the order the workers finished.
CollectAsFinished == [k \in 1..Len(order) |-> slots[order[k]].rec]

\* .collect() into the Vec, in the order of the input.
CollectRecords == [i \in 1..Len(records) |-> slots[i].rec]

\* Ok(TransformationEvent { records })
Return ==
  /\ pc = "par_iter"
  /\ \A i \in 1..Len(records) : slots[i].state = "done"
  /\ ret' = CollectRecords
  /\ pc' = "returned"
  /\ UNCHANGED << records, made, slots, order >>

\* A worker's panic is resumed in my_handler: the call does not return.
Unwind ==
  /\ pc = "par_iter"
  /\ \E i \in 1..Len(records) : slots[i].state = "panicked"
  /\ pc' = "unwound"
  /\ UNCHANGED << records, made, slots, order, ret >>

Next ==
  \/ \E i \in 1..Len(records) : MapRecord(i)
  \/ Return
  \/ Unwind

Spec == Init /\ [][Next]_vars

SpecLine == InitLine /\ [][Next]_vars

(***************************************************************************)
(* Reading an output back, for the properties: the JSON text of a record's *)
(* data, the value of a member of the object, the fields of an RFC 3339    *)
(* timestamp and the day number of a date.                                 *)
(***************************************************************************)
\* The number of backslashes that stand immediately before position q.
BackslashesBefore(t, q) ==
  MinOf({q - 1 - r : r \in {x \in 1..(q - 1) : t[x] # 92}}, q - 1)

\* A quote that delimits a string: one not escaped by a backslash.
IsDelimiter(t, q) == CharAt(t, q) = 34 /\ BackslashesBefore(t, q) % 2 = 0

\* The first delimiting quote after position q (0 if there is none).
ClosingQuote(t, q) == MinOf({c \in (q + 1)..Len(t) : IsDelimiter(t, c)}, 0)

HexValue(c) == IF c \in 48..57 THEN c - 48 ELSE IF c \in 97..102 THEN c - 87 ELSE c - 55

\* What position k of the inside of a JSON string stands for.
UnescapeAt(raw, k) ==
  IF raw[k] = 92
  THEN (IF BackslashesBefore(raw, k) % 2 = 0 THEN <<>> ELSE << 92 >>)
  ELSE IF BackslashesBefore(raw, k) % 2 = 1
  THEN CASE raw[k] = 110 -> << 10 >>
         [] raw[k] = 116 -> << 9 >>
         [] raw[k] = 114 -> << 13 >>
         [] raw[k] = 98 -> << 8 >>
         [] raw[k] = 102 -> << 12 >>
         [] raw[k] = 117 -> << HexValue(raw[k + 1]) * 4096 + HexValue(raw[k + 2]) * 256
                               + HexValue(raw[k + 3]) * 16 + HexValue(raw[k + 4]) >>
         [] OTHER -> << raw[k] >>
  ELSE IF \E j \in 1..4 : /\ k - j >= 1
                          /\ raw[k - j] = 117
                          /\ BackslashesBefore(raw, k - j) % 2 = 1
  THEN <<>>
  ELSE << raw[k] >>

Unescape(raw) == Flatten([k \in 1..Len(raw) |-> UnescapeAt(raw, k)])

JsonAbsent == [type |-> "absent", text |-> <<>>]

\* The value that begins at position v: a string up to its closing quote, or
\* a number, a run of digits that a ',' or the '}' ends.
JsonStringTo(t, v, close) ==
  IF close = 0 THEN JsonAbsent
  ELSE [type |-> "string", text |-> Unescape(Slice(t, v + 1, close))]

JsonNumberTo(t, v, end) ==
  IF end > v /\ CharAt(t, end) \in {44, 125}
  THEN [type |-> "number", text |-> Slice(t, v, end)]
  ELSE JsonAbsent

JsonValueAt(t, v) ==
  IF CharAt(t, v) = 34 THEN JsonStringTo(t, v, ClosingQuote(t, v))
  ELSE JsonNumberTo(t, v, RunEnd(t, v, "IsAsciiDigit"))

\* The positions where the member named key begins: after '{' or ',', an
\* opening quote, the key, a closing quote and a ':'.
JsonKeyAt(t, key, q) ==
  /\ CharAt(t, q - 1) \in {123, 44}
  /\ IsDelimiter(t, q)
  /\ Slice(t, q + 1, q + 1 + Len(key)) = key
  /\ IsDelimiter(t, q + 1 + Len(key))
  /\ CharAt(t, q + 2 + Len(key)) = 58
  /\ Cardinality({r \in 1..(q - 1) : IsDelimiter(t, r)}) % 2 = 0

JsonMemberAt(t, key, q) == IF q = 0 THEN JsonAbsent ELSE JsonValueAt(t, q + 3 + Len(key))

JsonGetText(t, key) ==
  JsonMemberAt(t, key, MinOf({q \in 2..(Len(t) - Len(key)) : JsonKeyAt(t, key, q)}, 0))

JsonStr(text) == [type |-> "string", text |-> text]

\* The JSON number that a run of ASCII digits denotes: without leading zeros.
JsonNum(digits) ==
  [type |-> "number",
   text |-> Slice(digits, MinOf({q \in 1..Len(digits) : digits[q] # 48}, Len(digits)),
                  Len(digits) + 1)]

KeyTimestamp == <<"@", "t", "i", "m", "e", "s", "t", "a", "m", "p">>

KeyTimestampUtc == <<"@", "t", "i", "m", "e", "s", "t", "a", "m", "p", "_", "u", "t", "c">>

Two(t, p) == (t[p] - 48) * 10 + (t[p + 1] - 48)

\* The fields of YYYY-MM-DDTHH:MM:SS+HH:MM, read from its end; the year may
\* carry a sign.
Rfc3339Fields(t) ==
  [year   |-> IF t[1] = 45 THEN 0 - DigitsValue(t, 2, Len(t) - 20)
              ELSE IF t[1] = 43 THEN DigitsValue(t, 2, Len(t) - 20)
              ELSE DigitsValue(t, 1, Len(t) - 20),
   month  |-> Two(t, Len(t) - 19),
   day    |-> Two(t, Len(t) - 16),
   hour   |-> Two(t, Len(t) - 13),
   minute |-> Two(t, Len(t) - 10),
   second |-> Two(t, Len(t) - 7),
   offset |-> (IF t[Len(t) - 5] = 45 THEN -1 ELSE 1)
              * (Two(t, Len(t) - 4) * 60 + Two(t, Len(t) - 1))]

IsRfc3339(t) ==
  /\ Len(t) >= 25
  /\ t[Len(t) - 20] = 45 /\ t[Len(t) - 17] = 45 /\ t[Len(t) - 14] = 84
  /\ t[Len(t) - 11] = 58 /\ t[Len(t) - 8] = 58 /\ t[Len(t) - 5] \in {43, 45}
  /\ t[Len(t) - 2] = 58

\* The number of the day y-m-d, counted from 1970-01-01 (the civil calendar).
DaysOfEra(yy, m, d) ==
  (yy \div 400) * 146097 + (yy % 400) * 365 + ((yy % 400) \div 4)
  - ((yy % 400) \div 100) + ((153 * (IF m > 2 THEN m - 3 ELSE m + 9) + 2) \div 5)
  + d - 1 - 719468

DayNumber(y, m, d) == DaysOfEra(IF m <= 2 THEN y - 1 ELSE y, m, d)

\* The instant a timestamp names: <<day, minute of the day, second>> at UTC.
InstantAt(day, minutes, second) == << day + (minutes \div 1440), minutes % 1440, second >>

InstantOf(f) ==
  InstantAt(DayNumber(f.year, f.month, f.day), f.hour * 60 + f.minute - f.offset, f.second)

\* The record of input i as my_handler produced it, once its worker ran.
Ran(i) == slots[i].state # "pending"

Produced(i) == slots[i].state = "done"

Inputs == 1..Len(records)

IsLine(i) == made[i].f.kind = "line"

TsKind(i) == made[i].f.ts.tsKind

\* A well-formed input: a line of the grammar with a valid timestamp and
\* numbers within u32.
WellFormed(i) ==
  /\ IsLine(i) /\ TsKind(i) = "valid"
  /\ made[i].f.response.fits /\ made[i].f.bytes.fits

FailedAsItCame(i) ==
  /\ Produced(i)
  /\ slots[i].rec.result = NG
  /\ slots[i].rec.data = records[i].data
  /\ slots[i].rec.record_id = records[i].record_id

KeyHost == Cp(<<"h", "o", "s", "t">>)

KeyIdent == Cp(<<"i", "d", "e", "n", "t">>)

KeyAuthUser == Cp(<<"a", "u", "t", "h", "u", "s", "e", "r">>)

KeyRequest == Cp(<<"r", "e", "q", "u", "e", "s", "t">>)

KeyResponse == Cp(<<"r", "e", "s", "p", "o", "n", "s", "e">>)

KeyBytes == Cp(<<"b", "y", "t", "e", "s">>)

\* The JSON text of an output record's data.
Doc(rec) == FromUtf8(Base64Decode(rec.data).val).val

IsOk(i) == Produced(i) /\ slots[i].rec.result = OK

IdCount(rs, id) == Cardinality({i \in 1..Len(rs) : rs[i].record_id = id})

(***************************************************************************)
(* Properties of my_handler on a batch (specification Spec).               *)
(***************************************************************************)

\* C1: for every batch the call returns exactly one OutputRecord per input
\* record: the output is as long as the input and holds each recordId as
\* often as the input does.  (Fails: a line with nothing between the brackets
\* makes the call panic, so that it returns nothing.)
C1_OneOutputPerRecord ==
  /\ pc # "unwound"
  /\ pc = "returned" =>
       /\ Len(ret) = Len(records)
       /\ \A id \in RecordIds : IdCount(ret, id) = IdCount(records, id)

\* C2: no record's content makes the call abort: every record a worker ran
\* ended as an OutputRecord, a failing one as ProcessingFailed, and a batch
\* whose records all ran can be returned.
C2_NoAbortFromARecord ==
  /\ \A i \in Inputs :
       Ran(i) => /\ Produced(i)
                 /\ (~WellFormed(i) => slots[i].rec.result = NG)
  /\ (pc = "par_iter" /\ \A i \in Inputs : Ran(i)) => ENABLED Return

\* C3: a record that fails at any stage (base64, UTF-8, grammar, timestamp,
\* numbers) is put out as ProcessingFailed with the data it came with, and
\* only a record whose every stage succeeded is put out as Ok.
C3_FailurePreserved ==
  \A i \in Inputs :
    Ran(i) => /\ (~WellFormed(i) => FailedAsItCame(i))
              /\ (IsOk(i) => WellFormed(i))

\* C4: a line of the grammar with nothing between the brackets is a failure
\* of the parse: its record is put out as ProcessingFailed with its data.
C4_EmptyTimestampFails ==
  \A i \in Inputs :
    (Ran(i) /\ IsLine(i) /\ TsKind(i) = "absent") => FailedAsItCame(i)

\* C5: a batch of N records of which M are well-formed ends with N
\* OutputRecords, exactly M of them Ok, whatever the order of the records and
\* of the workers; each record's outcome is that of its own data.
C5_RecordsAreIsolated ==
  pc # "par_iter" =>
    /\ pc = "returned"
    /\ Len(ret) = Len(records)
    /\ Cardinality({i \in Inputs : ret[i].result = OK})
         = Cardinality({i \in Inputs : WellFormed(i)})

\* C10: the returned sequence keeps the order of the input (the i-th output
\* has the recordId of the i-th input) and is the same whatever order the
\* workers ran in: each output is transform_record of its input.
C10_OutputKeepsInputOrder ==
  pc = "returned" =>
    /\ Len(ret) = Len(records)
    /\ \A i \in Inputs : /\ ret[i].record_id = records[i].record_id
                         /\ ret[i] = transform_record(records[i]).val

\* Two records with different ids and outcomes, the second finished first.
C10_Witness ==
  /\ pc = "returned" /\ Len(records) = 2 /\ order = << 2, 1 >>
  /\ records[1].record_id # records[2].record_id
  /\ ret[1].result = OK /\ ret[2].result = NG

(***************************************************************************)
(* Properties of the transformation of one line (specification SpecLine).  *)
(***************************************************************************)
RoundTripsDoc(f, doc) ==
  /\ JsonGetText(doc, KeyHost) = JsonStr(f.host)
  /\ JsonGetText(doc, KeyIdent) = JsonStr(f.ident)
  /\ JsonGetText(doc, KeyAuthUser) = JsonStr(f.authuser)
  /\ JsonGetText(doc, KeyRequest) = JsonStr(f.request)
  /\ JsonGetText(doc, KeyResponse) = JsonNum(f.response.text)
  /\ JsonGetText(doc, KeyBytes) = JsonNum(f.bytes.text)

RoundTrips(i) == IsOk(i) /\ RoundTripsDoc(made[i].f, Doc(slots[i].rec))

\* C6, as amended: if the line matches the grammar, its timestamp is present
\* and parses, and its numbers are valid, the OutputRecord is Ok and its data,
\* base64-decoded and read as JSON, holds host, ident, authuser, request,
\* response and bytes as the line has them, whatever follows the byte count.
C6_RoundTripWhenTimestampParses ==
  \A i \in Inputs : (Ran(i) /\ WellFormed(i)) => RoundTrips(i)

\* C6 as claimed: every OutputRecord of a line that matches the grammar and
\* whose numbers are valid is Ok and round-trips.
C6_RoundTripOnGrammarAndNumbers ==
  \A i \in Inputs :
    (Produced(i) /\ IsLine(i) /\ made[i].f.response.fits /\ made[i].f.bytes.fits)
      => RoundTrips(i)

\* A line with text after the byte count and quotes in its request, put out.
C6_Witness ==
  \E i \in Inputs :
    /\ IsOk(i) /\ WellFormed(i)
    /\ made[i].f.tail # <<>>
    /\ 34 \in {made[i].f.request[k] : k \in 1..Len(made[i].f.request)}

SameStampsDoc(d1, d2) ==
  /\ JsonGetText(d1, Cp(KeyTimestamp)) = JsonGetText(d2, Cp(KeyTimestamp))
  /\ JsonGetText(d1, Cp(KeyTimestampUtc)) = JsonGetText(d2, Cp(KeyTimestampUtc))
  /\ JsonGetText(d1, Cp(KeyTimestamp)).type = "string"
  /\ JsonGetText(d1, Cp(KeyTimestampUtc)).type = "string"

BothFormatsFail(text) ==
  /\ ParseFromStr(text, FormatColon).tag # "Ok"
  /\ ParseFromStr(text, FormatNoColon).tag # "Ok"

\* C7: the timestamp fails only when both formats fail, and a timestamp whose
\* offset is written +HHMM gives what the one written +HH:MM gives: the same
\* status and, when Ok, the same @timestamp and @timestamp_utc; every valid
\* date, time and offset parses in both forms.
C7_BothOffsetFormsParseAlike ==
  /\ \A i \in Inputs :
       (Ran(i) /\ TsKind(i) # "absent" /\ made[i].f.response.fits /\ made[i].f.bytes.fits)
         => /\ Produced(i)
            /\ slots[i].rec.result = NG
                 <=> BothFormatsFail(TsText(made[i].f.ts, made[i].colon))
  /\ (Ran(1) /\ Ran(2)) =>
       /\ slots[1].state = slots[2].state
       /\ slots[1].rec.result = slots[2].rec.result
       /\ IsOk(1) => SameStampsDoc(Doc(slots[1].rec), Doc(slots[2].rec))
       /\ WellFormed(1) => IsOk(1)

\* The same valid timestamp in both forms (so the data differ), both put out.
C7_Witness ==
  /\ IsOk(1) /\ IsOk(2)
  /\ TsKind(1) = "valid" /\ made[1].f.ts.stamp.offset = -1439
  /\ records[1].data # records[2].data

StampsAgree(st, local, utc) ==
  /\ local.type = "string" /\ IsRfc3339(local.text)
  /\ utc.type = "string" /\ IsRfc3339(utc.text)
  /\ Rfc3339Fields(local.text) = st
  /\ SubSeq(utc.text, Len(utc.text) - 5, Len(utc.text)) = Cp(<<"+", "0", "0", ":", "0", "0">>)
  /\ InstantOf(Rfc3339Fields(utc.text)) = InstantOf(st)

StampsAgreeDoc(st, doc) ==
  StampsAgree(st, JsonGetText(doc, Cp(KeyTimestamp)), JsonGetText(doc, Cp(KeyTimestampUtc)))

ExampleLocal ==
  Cp(<<"2", "0", "1", "7", "-", "1", "2", "-", "1", "4", "T", "2", "2", ":", "1", "6", ":",
       "4", "5", "+", "0", "9", ":", "0", "0">>)

ExampleUtc ==
  Cp(<<"2", "0", "1", "7", "-", "1", "2", "-", "1", "4", "T", "1", "3", ":", "1", "6", ":",
       "4", "5", "+", "0", "0", ":", "0", "0">>)

ExampleDoc(doc) ==
  /\ JsonGetText(doc, Cp(KeyTimestamp)) = JsonStr(ExampleLocal)
  /\ JsonGetText(doc, Cp(KeyTimestampUtc)) = JsonStr(ExampleUtc)

\* C8: on every Ok record @timestamp is the date and time of the line with
\* its offset, @timestamp_utc is written with +00:00, and both name the same
\* instant (day, minute and second, reckoned by day numbers); the line of
\* 14/Dec/2017:22:16:45 +09:00 gives 2017-12-14T22:16:45+09:00 and
\* 2017-12-14T13:16:45+00:00.
C8_TimestampsDenoteOneInstant ==
  \A i \in Inputs :
    IsOk(i) => /\ StampsAgreeDoc(made[i].f.ts.stamp, Doc(slots[i].rec))
               /\ made[i].f.ts = DefaultTs => ExampleDoc(Doc(slots[i].rec))

\* The first minute of 2017 at +09:00, which is 2016 at UTC.
C8_Witness ==
  \E i \in Inputs :
    IsOk(i) /\ made[i].f.ts.stamp = Stamp(1, 1, 2017, 0, 0, 0, 540)

U32MaxDigits == Cp(<<"4", "2", "9", "4", "9", "6", "7", "2", "9", "5">>)

AllAsciiDigits(text) == \A k \in 1..Len(text) : IsAsciiDigit(text[k])

\* Whether a run of ASCII digits, without its leading zeros, is a number
\* greater than 4294967295.
DigitsExceed(z) ==
  \/ Len(z) > 10
  \/ /\ Len(z) = 10
     /\ \E k \in 1..10 : z[k] > U32MaxDigits[k] /\ \A j \in 1..(k - 1) : z[j] = U32MaxDigits[j]

ExceedsU32(text) == AllAsciiDigits(text) /\ DigitsExceed(JsonNum(text).text)

NumbersDoc(f, doc) ==
  /\ JsonGetText(doc, KeyResponse) = JsonNum(f.response.text)
  /\ JsonGetText(doc, KeyBytes) = JsonNum(f.bytes.text)

ResponseInRange(doc) ==
  /\ JsonGetText(doc, KeyResponse).type = "number"
  /\ Len(JsonGetText(doc, KeyResponse).text) <= 3

\* C9: for a line whose timestamp parses, the status and the byte count are
\* put out as JSON numbers equal to the tokens' decimal values when they are
\* ASCII digits within u32; a byte count beyond 4294967295 fails the parse
\* (no wrapping, no truncation) and the record is put out as ProcessingFailed
\* with its data.  On every Ok record response is in 0..999.
C9_NumbersAreU32 ==
  \A i \in Inputs :
    /\ (Ran(i) /\ TsKind(i) = "valid" /\ AllAsciiDigits(made[i].f.response.text)) =>
         /\ (AllAsciiDigits(made[i].f.bytes.text) /\ ~ExceedsU32(made[i].f.bytes.text))
              => IsOk(i) /\ NumbersDoc(made[i].f, Doc(slots[i].rec))
         /\ ExceedsU32(made[i].f.bytes.text) => FailedAsItCame(i)
    /\ IsOk(i) => ResponseInRange(Doc(slots[i].rec))

\* The byte count 4294967296 on a line whose timestamp parses, put out as
\* failed; and the byte count 4294967295 put out as Ok.
C9_Witness ==
  /\ \E i \in Inputs :
       /\ Ran(i) /\ TsKind(i) = "valid"
       /\ made[i].f.bytes.text = Cp(<<"4", "2", "9", "4", "9", "6", "7", "2", "9", "6">>)
       /\ FailedAsItCame(i)

====
